---- MODULE Spec2Model ----
(***************************************************************************)
(* Ranked-choice (instant-runoff) tabulation of stl_book_club_v2/app.py:   *)
(* calculate_ranked_choice_winner(votes, books), run as a state machine    *)
(* whose steps are the entry checks, one iteration of the elimination      *)
(* loop, and the final block after the loop.                               *)
(*                                                                         *)
(* Python's 0-based list indices are 1-based here; the sentinel            *)
(* first_choice_idx = -1 is 0.  A dict is a function; a Round is a record  *)
(* whose fields are the keys of the Python dict (a key the code does not   *)
(* set is a field the record does not have).                               *)
(***************************************************************************)
EXTENDS Integers, Sequences, FiniteSets, TLC

VARIABLES votes, books, active_book_ids, order, rounds, pc, prev

\* The nomination and ballot storage of the application: heap holds the
\* list objects by address, storage_books is storage['books'],
\* session_books[s] is st.session_state.books of session s (0 before the
\* session's first run), ballots is the one dict that storage['votes'] and
\* every st.session_state.votes name.  stale records the sessions whose
\* script has not run since the nominations last changed.
VARIABLES heap, storage_books, session_books, ballots, stale

tabvars == <<votes, books, active_book_ids, order, rounds, pc, prev>>

appvars == <<heap, storage_books, session_books, ballots, stale>>

vars == <<votes, books, active_book_ids, order, rounds, pc, prev,
          heap, storage_books, session_books, ballots, stale>>

--------------------------------------------------------------------------
(* Bounds of the model *)

\* The largest number of ballots in the votes map.
MaxVoters == 3

\* The largest number of ballots where behaviours are checked for
\* termination under fairness.
MaxVotersFair == 2

\* A cap on the rounds the elimination loop may append; never reached by
\* the loop as written (at most one round per candidate).
MaxRounds == 5

\* The book identities of the model, in nomination order.
Nominated == <<"a", "b", "c">>

None == "None"

Range(s) == {s[i] : i \in DOMAIN s}

BookIds == Range(Nominated)

\* A ranking lists no identity twice (the vote form rejects duplicates).
Rankings ==
    {s \in UNION {[1..n -> BookIds] : n \in 0..Len(Nominated)} :
        \A i, j \in DOMAIN s : i # j => s[i] # s[j]}

\* The lists of nominated books: only the identity of a Book is read.
BookLists == {SelectSeq(Nominated, LAMBDA b : b \in S) : S \in SUBSET BookIds}

Digit(b) == CHOOSE i \in DOMAIN Nominated : Nominated[i] = b

RECURSIVE Code(_)
Code(s) == IF s = <<>> THEN 0 ELSE Digit(Head(s)) + 4 * Code(Tail(s))

\* The votes maps: voters are 1..n.  The tally reads neither the voters'
\* names nor the order of the ballots, so one map stands for all its
\* renamings of the voters.
VoteMapsUpTo(m) ==
    UNION {{v \in [1..n -> Rankings] :
               \A i \in 1..(n - 1) : Code(v[i]) <= Code(v[i + 1])} :
           n \in 0..m}

VoteMaps == VoteMapsUpTo(MaxVoters)

Perms(S) == {s \in [1..Cardinality(S) -> S] : Range(s) = S}

--------------------------------------------------------------------------
(* The code's computations *)

\* line 173-175: every identity that appears in some ballot
AllVotedBookIds(vs) == UNION {Range(vs[v]) : v \in DOMAIN vs}

ActiveOfAllVoted(vs, bs) == AllVotedBookIds(vs)

ActiveOfAllBooks(vs, bs) == Range(bs)

\* line 178: the books that have votes
ActiveBookIds(vs, bs) == {b \in Range(bs) : b \in AllVotedBookIds(vs)}

\* Iteration over the set active_book_ids: its members in the order the
\* set holds them; removing a member leaves the order of the others.
IterActive(ord, active) == SelectSeq(ord, LAMBDA b : b \in active)

FirstChoiceOnly(ranked_choices, active) ==
    IF ranked_choices # <<>> /\ ranked_choices[1] \in active THEN 1 ELSE 0

\* line 244-248: index of the first choice that is still active, 0 if none
FirstChoiceIdx(ranked_choices, active) ==
    IF \E i \in DOMAIN ranked_choices : ranked_choices[i] \in active
    THEN CHOOSE i \in DOMAIN ranked_choices :
            /\ ranked_choices[i] \in active
            /\ \A j \in 1..(i - 1) : ranked_choices[j] \notin active
    ELSE 0

CreditEveryActive(counts, ranked_choices, active) ==
    [b \in DOMAIN counts |->
        IF b \in Range(ranked_choices) THEN counts[b] + 1 ELSE counts[b]]

CreditAfterFirst(counts, ranked_choices, active) ==
    LET idx == FirstChoiceIdx(ranked_choices, active)
    IN  IF idx = 0 THEN counts
        ELSE IF /\ idx + 1 <= Len(ranked_choices)
                /\ ranked_choices[idx + 1] \in active
        THEN [counts EXCEPT ![ranked_choices[idx + 1]] = @ + 1]
        ELSE [counts EXCEPT ![ranked_choices[idx]] = @ + 1]

\* line 196-199: one ballot credits its first active choice, then breaks
CreditBallot(counts, ranked_choices, active) ==
    LET idx == FirstChoiceIdx(ranked_choices, active)
    IN  IF idx = 0 THEN counts
        ELSE [counts EXCEPT ![ranked_choices[idx]] = @ + 1]

RECURSIVE CountFrom(_, _, _, _)
CountFrom(counts, vs, n, active) ==
    IF n > Len(vs) THEN counts
    ELSE CountFrom(CreditBallot(counts, vs[n], active), vs, n + 1, active)

\* line 187-199: vote_counts of one round
VoteCounts(vs, active) == CountFrom([b \in active |-> 0], vs, 1, active)

IsMajorityOrHalf(count, total_votes) == 2 * count >= total_votes

\* line 203, 207: count > total_votes / 2, in real division
IsMajority(count, total_votes) == 2 * count > total_votes

\* line 204-209: the first item of vote_counts over the threshold
MajorityWinner(vote_counts, items, total_votes) ==
    IF \E i \in DOMAIN items : IsMajority(vote_counts[items[i]], total_votes)
    THEN items[CHOOSE i \in DOMAIN items :
            /\ IsMajority(vote_counts[items[i]], total_votes)
            /\ \A j \in 1..(i - 1) :
                  ~IsMajority(vote_counts[items[j]], total_votes)]
    ELSE None

\* min() over the values of a dict
MinValue(counts, keys) ==
    CHOOSE m \in {counts[b] : b \in keys} : \A b \in keys : m <= counts[b]

\* line 233-235: the books with the fewest votes, in the dict's order
BooksWithMinVotes(vote_counts, items) ==
    SelectSeq(items,
        LAMBDA b : vote_counts[b] = MinValue(vote_counts, Range(items)))

NextTiedAdjacent(ranked_choices, first_choice_idx, tied) ==
    IF /\ first_choice_idx + 1 <= Len(ranked_choices)
       /\ ranked_choices[first_choice_idx + 1] \in Range(tied)
    THEN ranked_choices[first_choice_idx + 1]
    ELSE None

\* line 256-259 and 262-265: the first tied book ranked after the first
\* active choice, None when there is none
NextTied(ranked_choices, first_choice_idx, tied) ==
    LET later == {i \in DOMAIN ranked_choices :
                     i > first_choice_idx /\ ranked_choices[i] \in Range(tied)}
    IN  IF later = {} THEN None
        ELSE ranked_choices[CHOOSE i \in later : \A j \in later : i <= j]

\* line 243-265: what one ballot adds to next_choice_counts
CreditNextChoice(counts, ranked_choices, tied, active) ==
    LET first_choice_idx == FirstChoiceIdx(ranked_choices, active)
    IN  IF first_choice_idx = 0 THEN counts
        ELSE IF \/ Len(tied) = Cardinality(active)
                \/ ranked_choices[first_choice_idx] \in Range(tied)
        THEN LET b == NextTied(ranked_choices, first_choice_idx, tied)
             IN  IF b = None THEN counts ELSE [counts EXCEPT ![b] = @ + 1]
        ELSE LET b == NextTied(ranked_choices, first_choice_idx, tied)
             IN  IF b = None THEN counts ELSE [counts EXCEPT ![b] = @ + 1]

RECURSIVE NextFrom(_, _, _, _, _)
NextFrom(counts, vs, n, tied, active) ==
    IF n > Len(vs) THEN counts
    ELSE NextFrom(CreditNextChoice(counts, vs[n], tied, active),
                  vs, n + 1, tied, active)

\* line 240-265: next_choice_counts of the tied books
NextChoiceCounts(vs, tied, active) ==
    NextFrom([b \in Range(tied) |-> 0], vs, 1, tied, active)

TieBreakNone(vs, tied, active) == tied

\* line 238-271: the tied books after the next-rank tiebreaker
TieBreak(vs, tied, active) ==
    IF Len(tied) > 1
    THEN LET next_choice_counts == NextChoiceCounts(vs, tied, active)
         IN  IF \E b \in Range(tied) : next_choice_counts[b] > 0
             THEN SelectSeq(tied,
                      LAMBDA b : next_choice_counts[b] =
                                 MinValue(next_choice_counts, Range(tied)))
             ELSE tied
    ELSE tied

\* line 233-271: books_with_min_votes as it stands at line 273
Tied(vs, ord, active) ==
    LET items == IterActive(ord, active)
    IN  TieBreak(vs, BooksWithMinVotes(VoteCounts(vs, active), items), active)

KeepAll(active, book_id) == active

\* line 278, 297: active_book_ids.remove(eliminated_book_id)
Remove(active, book_id) == active \ {book_id}

KeepActive(active) == active

\* line 292: active_book_ids.clear()
Clear(active) == {}

RoundNumberFromZero(rs) == Len(rs)

\* line 214, 226, 285, 311: len(rounds) + 1
RoundNumber(rs) == Len(rs) + 1

FirstChoiceCounts(winner_id, vs) ==
    [b \in {winner_id} |->
        Cardinality({v \in DOMAIN vs : vs[v] # <<>> /\ vs[v][1] = winner_id})]

\* line 283-286, 307-308: all the votes go to the remaining candidate
WinnerCounts(winner_id, vs) == [b \in {winner_id} |-> Len(vs)]

\* line 185-300: the while loop run to its exit, as a function of the votes
\* and of the order in which the active set is iterated; it yields the
\* rounds and the active set as they stand at line 302
RECURSIVE RunLoop(_, _, _, _)
RunLoop(vs, ord, active, rs) ==
    IF Cardinality(active) > 1
    THEN LET vote_counts == VoteCounts(vs, active)
             items == IterActive(ord, active)
             majority_winner == MajorityWinner(vote_counts, items, Len(vs))
             books_with_min_votes == Tied(vs, ord, active)
             round_data ==
                 [round_number |-> RoundNumber(rs),
                  vote_counts |-> vote_counts,
                  active_books |-> Cardinality(active),
                  eliminated |-> books_with_min_votes[1]]
         IN  IF majority_winner # None
             THEN [rounds |-> Append(rs,
                       [round_number |-> RoundNumber(rs),
                        vote_counts |-> vote_counts,
                        active_books |-> Cardinality(active),
                        eliminated |-> None,
                        winner |-> majority_winner,
                        majority_win |-> TRUE]),
                   active |-> active]
             ELSE IF Len(books_with_min_votes) = Cardinality(active)
             THEN [rounds |-> Append(Append(rs, round_data),
                       [round_number |-> RoundNumber(Append(rs, round_data)),
                        vote_counts |->
                            WinnerCounts(books_with_min_votes[2], vs),
                        active_books |-> 1,
                        eliminated |-> None,
                        winner |-> books_with_min_votes[2]]),
                   active |-> Clear(Remove(active, books_with_min_votes[1]))]
             ELSE RunLoop(vs, ord, Remove(active, books_with_min_votes[1]),
                          Append(rs, round_data))
    ELSE [rounds |-> rs, active |-> active]

\* line 164-318: the value the function returns, given the order in which
\* the active set is iterated
Tabulate(vs, bs, ord) ==
    IF vs = <<>> \/ bs = <<>> THEN <<>>
    ELSE IF ActiveBookIds(vs, bs) = {} THEN <<>>
    ELSE LET out == RunLoop(vs, ord, ActiveBookIds(vs, bs), <<>>)
         IN  IF out.active # {} /\ Cardinality(out.active) = 1
             THEN Append(out.rounds,
                      [round_number |-> RoundNumber(out.rounds),
                       vote_counts |->
                           WinnerCounts(IterActive(ord, out.active)[1], vs),
                       active_books |-> 1,
                       eliminated |-> None,
                       winner |-> IterActive(ord, out.active)[1]])
             ELSE out.rounds

--------------------------------------------------------------------------
(* The state machine *)

\* No session of the application has run.
NoSession ==
    /\ heap = <<>>
    /\ storage_books = 0
    /\ session_books = <<>>
    /\ ballots = <<>>
    /\ stale = {}

\* line 749-753: the results tab calls the function with the session's
\* votes and books
Init ==
    /\ votes \in VoteMaps
    /\ books \in BookLists
    /\ active_book_ids = {}
    /\ order = <<>>
    /\ rounds = <<>>
    /\ pc = "call"
    /\ prev = <<>>
    /\ NoSession

\* line 169-170: no votes or no books
ReturnNoInput ==
    /\ pc = "call"
    /\ (votes = <<>> \/ books = <<>>)
    /\ rounds' = <<>>
    /\ pc' = "done"
    /\ UNCHANGED <<votes, books, active_book_ids, order, prev, appvars>>

\* line 172-181: no book has a vote
ReturnNoActive ==
    /\ pc = "call"
    /\ ~(votes = <<>> \/ books = <<>>)
    /\ ActiveBookIds(votes, books) = {}
    /\ active_book_ids' = {}
    /\ rounds' = <<>>
    /\ pc' = "done"
    /\ UNCHANGED <<votes, books, order, prev, appvars>>

\* line 172-183: the active set is built; the order in which the set will
\* be iterated is whatever the hashes of the identities make it
Enter ==
    /\ pc = "call"
    /\ ~(votes = <<>> \/ books = <<>>)
    /\ ActiveBookIds(votes, books) # {}
    /\ active_book_ids' = ActiveBookIds(votes, books)
    /\ order' \in Perms(active_book_ids')
    /\ rounds' = <<>>
    /\ pc' = "loop"
    /\ UNCHANGED <<votes, books, prev, appvars>>

\* line 185-222: an iteration that finds a majority winner
MajorityRound ==
    /\ pc = "loop"
    /\ Cardinality(active_book_ids) > 1
    /\ Len(rounds) < MaxRounds
    /\ LET vote_counts == VoteCounts(votes, active_book_ids)
           items == IterActive(order, active_book_ids)
           majority_winner == MajorityWinner(vote_counts, items, Len(votes))
       IN  /\ majority_winner # None
           /\ rounds' = Append(rounds,
                  [round_number |-> RoundNumber(rounds),
                   vote_counts |-> vote_counts,
                   active_books |-> Cardinality(active_book_ids),
                   eliminated |-> None,
                   winner |-> majority_winner,
                   majority_win |-> TRUE])
    /\ pc' = "final"
    /\ UNCHANGED <<votes, books, active_book_ids, order, prev, appvars>>

\* line 185-293: an iteration in which all remaining books are tied
TotalTieRound ==
    /\ pc = "loop"
    /\ Cardinality(active_book_ids) > 1
    /\ Len(rounds) < MaxRounds
    /\ LET vote_counts == VoteCounts(votes, active_book_ids)
           items == IterActive(order, active_book_ids)
           books_with_min_votes == Tied(votes, order, active_book_ids)
           eliminated_book_id == books_with_min_votes[1]
           winner_id == books_with_min_votes[2]
           round_data ==
               [round_number |-> RoundNumber(rounds),
                vote_counts |-> vote_counts,
                active_books |-> Cardinality(active_book_ids),
                eliminated |-> eliminated_book_id]
           appended == Append(rounds, round_data)
       IN  /\ MajorityWinner(vote_counts, items, Len(votes)) = None
           /\ Len(books_with_min_votes) = Cardinality(active_book_ids)
           /\ rounds' = Append(appended,
                  [round_number |-> RoundNumber(appended),
                   vote_counts |-> WinnerCounts(winner_id, votes),
                   active_books |-> 1,
                   eliminated |-> None,
                   winner |-> winner_id])
           /\ active_book_ids' =
                  Clear(Remove(active_book_ids, eliminated_book_id))
    /\ pc' = "final"
    /\ UNCHANGED <<votes, books, order, prev, appvars>>

\* line 185-300: an iteration that eliminates one book and loops
EliminateRound ==
    /\ pc = "loop"
    /\ Cardinality(active_book_ids) > 1
    /\ Len(rounds) < MaxRounds
    /\ LET vote_counts == VoteCounts(votes, active_book_ids)
           items == IterActive(order, active_book_ids)
           books_with_min_votes == Tied(votes, order, active_book_ids)
           eliminated_book_id == books_with_min_votes[1]
       IN  /\ MajorityWinner(vote_counts, items, Len(votes)) = None
           /\ Len(books_with_min_votes) # Cardinality(active_book_ids)
           /\ active_book_ids' = Remove(active_book_ids, eliminated_book_id)
           /\ rounds' = Append(rounds,
                  [round_number |-> RoundNumber(rounds),
                   vote_counts |-> vote_counts,
                   active_books |-> Cardinality(active_book_ids),
                   eliminated |-> eliminated_book_id])
    /\ pc' = "loop"
    /\ UNCHANGED <<votes, books, order, prev, appvars>>

\* line 185: the while test fails
LoopExit ==
    /\ pc = "loop"
    /\ ~(Cardinality(active_book_ids) > 1)
    /\ pc' = "final"
    /\ UNCHANGED <<votes, books, active_book_ids, order, rounds, prev, appvars>>

\* line 302-318: the last remaining book wins
FinalRound ==
    /\ pc = "final"
    /\ active_book_ids # {} /\ Cardinality(active_book_ids) = 1
    /\ LET winner_id == IterActive(order, active_book_ids)[1]
       IN  rounds' = Append(rounds,
               [round_number |-> RoundNumber(rounds),
                vote_counts |-> WinnerCounts(winner_id, votes),
                active_books |-> 1,
                eliminated |-> None,
                winner |-> winner_id])
    /\ pc' = "done"
    /\ UNCHANGED <<votes, books, active_book_ids, order, prev, appvars>>

\* line 303, 318: the winner was declared in the loop
Return ==
    /\ pc = "final"
    /\ ~(active_book_ids # {} /\ Cardinality(active_book_ids) = 1)
    /\ pc' = "done"
    /\ UNCHANGED <<votes, books, active_book_ids, order, rounds, prev, appvars>>

\* line 749-753: a rerun of the results tab calls the function again on
\* the same votes and books; prev keeps what the earlier call returned
Reinvoke ==
    /\ pc = "done"
    /\ prev = <<>>
    /\ prev' = <<rounds>>
    /\ rounds' = <<>>
    /\ active_book_ids' = {}
    /\ order' = <<>>
    /\ pc' = "call"
    /\ UNCHANGED <<votes, books, appvars>>

\* The steps of one call.
Step ==
    \/ ReturnNoInput
    \/ ReturnNoActive
    \/ Enter
    \/ MajorityRound
    \/ TotalTieRound
    \/ EliminateRound
    \/ LoopExit
    \/ FinalRound
    \/ Return

Next == Step \/ Reinvoke

Spec == Init /\ [][Next]_vars

\* One call, as a synchronous computation: a step that can be taken is
\* taken.
InitFair ==
    /\ votes \in VoteMapsUpTo(MaxVotersFair)
    /\ books \in BookLists
    /\ active_book_ids = {}
    /\ order = <<>>
    /\ rounds = <<>>
    /\ pc = "call"
    /\ prev = <<>>
    /\ NoSession

FairSpec == InitFair /\ [][Step]_vars /\ WF_vars(Step)

--------------------------------------------------------------------------
(* Nominations and ballots: the sessions and the persistent storage *)

\* The sessions of the shared deployment, and the voters' names.
SharedSessions == {1, 2}

VoterNames == {"v1", "v2"}

\* The application's objects as one value, so that a script run composes
\* the functions it calls.
AppState ==
    [heap |-> heap, storage_books |-> storage_books,
     session_books |-> session_books, ballots |-> ballots]

\* The list objects some name still refers to.
Live(st) ==
    ({st.storage_books} \cup
        {st.session_books[s] : s \in DOMAIN st.session_books}) \ {0}

\* An object no name refers to is gone.
Collect(st) == [st EXCEPT !.heap = [a \in Live(st) |-> st.heap[a]]]

\* The address of a newly built list: the lowest one not in use.
NewAddr(st) ==
    CHOOSE a \in 1..(Cardinality(Live(st)) + 1) :
        /\ a \notin Live(st)
        /\ \A x \in 1..(a - 1) : x \in Live(st)

\* st.session_state.books of session s
BooksOf(st, s) == st.heap[st.session_books[s]]

\* line 106-112: the storage is created once, with an empty list and an
\* empty dict
PersistentStorage(sessions) ==
    [heap |-> [a \in {1} |-> <<>>],
     storage_books |-> 1,
     session_books |-> [s \in sessions |-> 0],
     ballots |-> <<>>]

\* line 114-135: initialize_session_state
InitializeSessionState(st, s) ==
    LET bound == IF st.session_books[s] = 0
                 THEN [st EXCEPT !.session_books[s] = st.storage_books]
                 ELSE st
    IN  Collect([bound EXCEPT !.storage_books = bound.session_books[s]])

\* line 137-149: add_book; the list object is appended to in place
AddBook(st, s, b) ==
    IF b \in Range(BooksOf(st, s))
    THEN [ret |-> FALSE, st |-> st]
    ELSE [ret |-> TRUE,
          st |-> Collect([st EXCEPT
                     !.heap[st.session_books[s]] = Append(@, b),
                     !.storage_books = st.session_books[s]])]

RemoveBookKeepVotes(st, s, book_id) ==
    LET a == NewAddr(st)
        kept == SelectSeq(BooksOf(st, s), LAMBDA b : b # book_id)
    IN  Collect([st EXCEPT
            !.heap = [x \in DOMAIN st.heap \cup {a} |->
                         IF x = a THEN kept ELSE st.heap[x]],
            !.session_books[s] = a,
            !.storage_books = a])

\* line 151-162: remove_book; the session's name is bound to a new list,
\* the ballots are rewritten in the dict
RemoveBook(st, s, book_id) ==
    LET a == NewAddr(st)
        kept == SelectSeq(BooksOf(st, s), LAMBDA b : b # book_id)
    IN  Collect([st EXCEPT
            !.heap = [x \in DOMAIN st.heap \cup {a} |->
                         IF x = a THEN kept ELSE st.heap[x]],
            !.session_books[s] = a,
            !.ballots = [v \in DOMAIN st.ballots |->
                            SelectSeq(st.ballots[v], LAMBDA b : b # book_id)],
            !.storage_books = a])

\* line 708-718: Submit Vote; a ranking with a repeated book is refused
StoreVote(st, voter_name, rankings) ==
    IF Len(rankings) # Cardinality(Range(rankings))
    THEN st
    ELSE [st EXCEPT !.ballots =
             [v \in DOMAIN st.ballots \cup {voter_name} |->
                 IF v = voter_name THEN rankings ELSE st.ballots[v]]]

\* line 721-724: del st.session_state.votes[voter_name]
DeleteVote(st, voter_name) ==
    [st EXCEPT !.ballots =
        [v \in DOMAIN st.ballots \ {voter_name} |-> st.ballots[v]]]

\* The objects are those of st.
Is(st) ==
    /\ heap = st.heap
    /\ storage_books = st.storage_books
    /\ session_books = st.session_books
    /\ ballots = st.ballots

\* The objects become those of st.
Becomes(st) ==
    /\ heap' = st.heap
    /\ storage_books' = st.storage_books
    /\ session_books' = st.session_books
    /\ ballots' = st.ballots

\* The sessions that have run, other than s.
OtherStarted(st, s) ==
    {t \in DOMAIN st.session_books \ {s} : st.session_books[t] # 0}

\* line 106-112: the process starts; no session has run, nothing is being
\* tabulated
InitSessions(sessions) ==
    /\ votes = <<>>
    /\ books = <<>>
    /\ active_book_ids = {}
    /\ order = <<>>
    /\ rounds = <<>>
    /\ pc = "idle"
    /\ prev = <<>>
    /\ Is(PersistentStorage(sessions))
    /\ stale = {}

InitOne == InitSessions({1})

InitShared == InitSessions(SharedSessions)

\* line 541-543: a run of the script of session s that handles no widget
RerunPage(s) ==
    /\ pc = "idle"
    /\ Becomes(InitializeSessionState(AppState, s))
    /\ stale' = stale \ {s}
    /\ UNCHANGED tabvars

\* line 541-543, 607-624: a run that handles Add Book, a button an earlier
\* run of the session has shown; a book that is added makes the script run
\* again
AddBookRun(s, b) ==
    /\ pc = "idle"
    /\ session_books[s] # 0
    /\ LET st == InitializeSessionState(AppState, s)
           added == AddBook(st, s, b)
       IN  IF added.ret
           THEN /\ Becomes(InitializeSessionState(added.st, s))
                /\ stale' = OtherStarted(added.st, s)
           ELSE /\ Becomes(added.st)
                /\ stale' = stale \ {s}
    /\ UNCHANGED tabvars

\* line 541-543, 660-663, 328-330: a run that handles the Remove button of
\* a book the session shows, and runs the script again
RemoveBookRun(s, book_id) ==
    /\ pc = "idle"
    /\ session_books[s] # 0
    /\ LET st == InitializeSessionState(AppState, s)
       IN  /\ book_id \in Range(BooksOf(st, s))
           /\ Becomes(InitializeSessionState(RemoveBook(st, s, book_id), s))
           /\ stale' = OtherStarted(st, s)
    /\ UNCHANGED tabvars

\* line 541-543, 670-718: a run that handles Submit Vote: one choice per
\* nominated book, each among the session's books
SubmitVoteRun(s, voter_name, rankings) ==
    /\ pc = "idle"
    /\ session_books[s] # 0
    /\ LET st == InitializeSessionState(AppState, s)
       IN  /\ Len(BooksOf(st, s)) >= 2
           /\ rankings \in
                  [1..Len(BooksOf(st, s)) -> Range(BooksOf(st, s))]
           /\ Becomes(StoreVote(st, voter_name, rankings))
    /\ stale' = stale \ {s}
    /\ UNCHANGED tabvars

\* line 541-543, 720-727: a run that handles Remove My Vote, and runs the
\* script again
RemoveVoteRun(s, voter_name) ==
    /\ pc = "idle"
    /\ session_books[s] # 0
    /\ LET st == InitializeSessionState(AppState, s)
       IN  /\ Len(BooksOf(st, s)) >= 2
           /\ voter_name \in DOMAIN st.ballots
           /\ Becomes(InitializeSessionState(DeleteVote(st, voter_name), s))
    /\ stale' = stale \ {s}
    /\ UNCHANGED tabvars

\* The books and the voters of the shared deployment.
SharedBookIds == {"a", "b"}

SharedVoterNames == {"v1"}

\* line 541-831: one run of the script, for some session and some widget
ScriptRun(ids, voters) ==
    \/ \E s \in DOMAIN session_books : RerunPage(s)
    \/ \E s \in DOMAIN session_books : \E b \in ids : AddBookRun(s, b)
    \/ \E s \in DOMAIN session_books : \E b \in ids : RemoveBookRun(s, b)
    \/ \E s \in DOMAIN session_books : \E v \in voters :
           \E r \in UNION {[1..n -> ids] : n \in 2..Cardinality(ids)} :
               SubmitVoteRun(s, v, r)
    \/ \E s \in DOMAIN session_books : \E v \in voters : RemoveVoteRun(s, v)

SessionNext == ScriptRun(BookIds, VoterNames)

SharedNext == ScriptRun(SharedBookIds, SharedVoterNames)

\* One session and the storage.
OneSessionSpec == InitOne /\ [][SessionNext]_vars

\* The sessions of the shared deployment and the storage.
SharedSpec == InitShared /\ [][SharedNext]_vars

--------------------------------------------------------------------------
(* Vocabulary of the properties *)

HasWinner(r) == "winner" \in DOMAIN r

HasMajorityFlag(r) == "majority_win" \in DOMAIN r

\* A counted round is one the loop tallied: it has more than one active book.
Counted(r) == r.active_books > 1

TotalBallots == Len(votes)

RECURSIVE SumCounts(_, _)
SumCounts(counts, keys) ==
    IF keys = {} THEN 0
    ELSE LET b == CHOOSE x \in keys : TRUE
         IN  counts[b] + SumCounts(counts, keys \ {b})

\* The known candidates some ballot references.
Referenced ==
    {b \in Range(books) :
        \E v \in DOMAIN votes : \E i \in DOMAIN votes[v] : votes[v][i] = b}

LastRound == rounds[Len(rounds)]

--------------------------------------------------------------------------
(* C1: the result is empty exactly when there are no ballots, no
   candidates, or no ballot references a known candidate; every other
   input yields at least one round. *)
ReturnsEmptyIff ==
    pc = "done" =>
        (rounds = <<>> <=>
            (votes = <<>> \/ books = <<>> \/ Referenced = {}))

\* Ballots and candidates exist, but the ballots name only unknown books.
ReturnsEmptyWitness ==
    /\ pc = "done"
    /\ rounds = <<>>
    /\ votes # <<>> /\ books # <<>>
    /\ \E v \in DOMAIN votes : votes[v] # <<>>

(* C2: a non-empty result has exactly one round with a winner, the last
   one; no exit of the loop is followed by a second winner round. *)
OneWinnerRoundLast ==
    /\ \A i \in 1..(Len(rounds) - 1) : ~HasWinner(rounds[i])
    /\ pc = "done" /\ rounds # <<>> => HasWinner(LastRound)

\* A total tie has ended the tabulation: elimination round, winner round.
OneWinnerRoundWitness ==
    /\ pc = "done"
    /\ Len(rounds) >= 2
    /\ ~HasMajorityFlag(LastRound)
    /\ rounds[Len(rounds) - 1].eliminated # None
    /\ active_book_ids = {}

(* C3: in a counted round a count strictly above half the ballots ends
   the tabulation in that round, with majority_win, that candidate as
   winner and nobody eliminated; and a round with majority_win has a
   winner whose count is strictly above half the ballots. *)
MajorityRule ==
    \A i \in DOMAIN rounds :
        LET r == rounds[i]
        IN  /\ Counted(r) =>
                \A b \in DOMAIN r.vote_counts :
                    2 * r.vote_counts[b] > TotalBallots =>
                        /\ i = Len(rounds)
                        /\ HasMajorityFlag(r) /\ r.majority_win = TRUE
                        /\ HasWinner(r) /\ r.winner = b
                        /\ r.eliminated = None
            /\ HasMajorityFlag(r) /\ r.majority_win = TRUE =>
                /\ HasWinner(r)
                /\ r.winner \in DOMAIN r.vote_counts
                /\ 2 * r.vote_counts[r.winner] > TotalBallots

\* A majority reached in the second round, after a first round in which
\* nobody was above half the ballots and one candidate was eliminated.
MajorityRuleWitness ==
    /\ pc = "done"
    /\ Len(rounds) = 2
    /\ HasMajorityFlag(LastRound)
    /\ rounds[1].eliminated # None

(* C4: if round r carries no winner, round r+1 has exactly one active
   candidate fewer than round r, the elimination round of a total tie
   and its synthetic winner round included. *)
ActiveShrinksByOne ==
    \A i \in 1..(Len(rounds) - 1) :
        ~HasWinner(rounds[i]) =>
            rounds[i + 1].active_books = rounds[i].active_books - 1

(* C5: when the tabulation ends without a majority win, the terminal
   round's vote_counts holds only the winner, with all the ballots, and
   the round has no majority_win flag. *)
SoleWinnerTakesAll ==
    pc = "done" /\ rounds # <<>>
        /\ (\A i \in DOMAIN rounds : ~HasMajorityFlag(rounds[i])) =>
            /\ HasWinner(LastRound)
            /\ DOMAIN LastRound.vote_counts = {LastRound.winner}
            /\ LastRound.vote_counts[LastRound.winner] = TotalBallots
            /\ ~HasMajorityFlag(LastRound)

\* The winner of a non-majority end gets a ballot that never ranked it.
SoleWinnerWitness ==
    /\ pc = "done" /\ rounds # <<>>
    /\ ~HasMajorityFlag(LastRound)
    /\ \E v \in DOMAIN votes : LastRound.winner \notin Range(votes[v])

(* C6: in every round but the last, the counts sum to at most the number
   of ballots, and to exactly that number when every ballot ranks a
   candidate active in the round. *)
CountSumBound ==
    \A i \in 1..(Len(rounds) - 1) :
        LET counts == rounds[i].vote_counts
            active == DOMAIN counts
        IN  /\ SumCounts(counts, active) <= TotalBallots
            /\ (\A v \in DOMAIN votes : Range(votes[v]) \cap active # {}) =>
                   SumCounts(counts, active) = TotalBallots

\* Both cases: a first round with an exhausted ballot, and a later round
\* in which every ballot still counts.
CountSumWitness ==
    /\ pc = "done"
    /\ Len(rounds) = 3
    /\ SumCounts(rounds[1].vote_counts, DOMAIN rounds[1].vote_counts)
           = TotalBallots
    /\ SumCounts(rounds[2].vote_counts, DOMAIN rounds[2].vote_counts)
           < TotalBallots

(* C7: two calls on the same ballots and candidates return the same
   rounds, also when the minimum tally is shared and the tie is resolved
   by the first element of the collection built from the active set. *)
Deterministic ==
    pc = "done" /\ prev # <<>> => rounds = prev[1]

(* C8, as claimed: no ballots, or fewer than two known candidates
   referenced by the ballots, yields the empty result. *)
EmptyBelowTwoCandidates ==
    pc = "done" /\ (votes = <<>> \/ Cardinality(Referenced) < 2) =>
        rounds = <<>>

(* C8, amended: no ballots, or no known candidate referenced by the
   ballots, yields the empty result; exactly one referenced candidate
   yields a single round that declares it the winner with all ballots. *)
EmptyOrSoleCandidate ==
    pc = "done" =>
        /\ (votes = <<>> \/ Referenced = {}) => rounds = <<>>
        /\ votes # <<>> /\ Cardinality(Referenced) = 1 =>
               /\ Len(rounds) = 1
               /\ rounds[1].round_number = 1
               /\ HasWinner(rounds[1]) /\ {rounds[1].winner} = Referenced
               /\ rounds[1].vote_counts =
                      [b \in Referenced |-> TotalBallots]
               /\ ~HasMajorityFlag(rounds[1])

\* One tabulatable candidate, two books nominated.
SoleCandidateWitness ==
    /\ pc = "done"
    /\ Cardinality(Referenced) = 1
    /\ Len(books) >= 2
    /\ Len(rounds) = 1

(* C9: the i-th round has round_number i, and during a tabulation the
   rounds already appended stay as they are: the result only grows. *)
SequentialAppendOnly ==
    /\ [](\A i \in DOMAIN rounds : rounds[i].round_number = i)
    /\ [][pc # "done" =>
            /\ Len(rounds') >= Len(rounds)
            /\ \A i \in DOMAIN rounds : rounds'[i] = rounds[i]]_vars

\* Three rounds: two eliminations and the last survivor.
SequentialWitness ==
    /\ pc = "done"
    /\ Len(rounds) = 3
    /\ rounds[2].eliminated # None
    /\ ~HasMajorityFlag(rounds[3])

(* C10: every call returns: an iteration of the loop either leaves the
   loop or removes exactly one candidate from the active set. *)
Terminates ==
    /\ [][pc = "loop" /\ pc' = "loop" =>
            Cardinality(active_book_ids') =
                Cardinality(active_book_ids) - 1]_vars
    /\ (pc = "call") ~> (pc = "done")

\* A call that went twice round the loop has returned.
TerminatesWitness ==
    /\ pc = "done"
    /\ Len(rounds) >= 2
    /\ rounds[1].eliminated # None /\ rounds[2].eliminated # None

--------------------------------------------------------------------------
(* C11: a reference to an identity that is not in the candidate list is
   ignored for that reference only: the call returns what tabulating the
   ballots with every unknown identity deleted returns (ballots that
   become empty are kept and count toward the total), for the same
   iteration order of the active set. *)
KnownOnly(ranked_choices, bs) ==
    SelectSeq(ranked_choices, LAMBDA b : b \in Range(bs))

StripUnknown(vs, bs) == [v \in DOMAIN vs |-> KnownOnly(vs[v], bs)]

UnknownIgnored ==
    pc = "done" =>
        /\ rounds = Tabulate(votes, books, order)
        /\ rounds = Tabulate(StripUnknown(votes, books), books, order)

\* A ballot that names only an unknown book and one that ranks an unknown
\* book among known ones, in a tabulation with an elimination round.
UnknownIgnoredWitness ==
    /\ pc = "done"
    /\ Len(rounds) = 2
    /\ rounds[1].eliminated # None
    /\ \E v \in DOMAIN votes :
           votes[v] # <<>> /\ KnownOnly(votes[v], books) = <<>>
    /\ \E v \in DOMAIN votes :
           /\ KnownOnly(votes[v], books) # votes[v]
           /\ KnownOnly(votes[v], books) # <<>>

--------------------------------------------------------------------------
(* The tally and the tiebreak, stated on the ballots *)

\* The position of the earliest-ranked member of S in a ranking, 0 if the
\* ranking has none.
EarliestPos(ranking, S) ==
    IF \E i \in DOMAIN ranking : ranking[i] \in S
    THEN CHOOSE i \in DOMAIN ranking :
            ranking[i] \in S /\ \A j \in DOMAIN ranking :
                                   ranking[j] \in S => i <= j
    ELSE 0

\* The ballots whose earliest-ranked active candidate is c.
BallotsFor(c, active) ==
    {v \in DOMAIN votes :
        LET i == EarliestPos(votes[v], active)
        IN  i > 0 /\ votes[v][i] = c}

\* The ballots that have an active first preference and whose first tied
\* candidate ranked after it is c.
NextChoiceBallots(c, tied, active) ==
    {v \in DOMAIN votes :
        LET i == EarliestPos(votes[v], active)
            rest == SubSeq(votes[v], i + 1, Len(votes[v]))
            k == EarliestPos(rest, tied)
        IN  i > 0 /\ k > 0 /\ rest[k] = c}

Tally(c, active) == Cardinality(BallotsFor(c, active))

Credits(c, tied, active) == Cardinality(NextChoiceBallots(c, tied, active))

\* The candidates with the minimum tally.
MinTallySet(active) ==
    {c \in active : \A d \in active : Tally(c, active) <= Tally(d, active)}

\* The tie set after the next-preference narrowing.
TieSet(active) ==
    LET tmin == MinTallySet(active)
    IN  IF /\ Cardinality(tmin) > 1
           /\ \E c \in tmin : Credits(c, tmin, active) > 0
        THEN {c \in tmin : \A d \in tmin :
                 Credits(c, tmin, active) <= Credits(d, tmin, active)}
        ELSE tmin

NoMajority(active) == \A c \in active : 2 * Tally(c, active) <= TotalBallots

\* The candidates still active when round i is counted.
ActiveAt(i) == Referenced \ {rounds[j].eliminated : j \in 1..(i - 1)}

(* C12: a round without majority whose tie set, after narrowing, is the
   whole active set is followed by exactly one more round: the round
   records one tied candidate as eliminated and no winner; the next gives
   a different tied candidate all the ballots, names it winner, eliminates
   nobody and has no majority_win flag; it is the last round. *)
TotalTieEnds ==
    \A i \in DOMAIN rounds :
        LET active == ActiveAt(i)
        IN  Counted(rounds[i]) /\ NoMajority(active)
                /\ TieSet(active) = active =>
                /\ Len(rounds) = i + 1
                /\ ~HasWinner(rounds[i])
                /\ rounds[i].eliminated \in active
                /\ HasWinner(LastRound)
                /\ LastRound.winner \in active \ {rounds[i].eliminated}
                /\ LastRound.vote_counts =
                       [c \in {LastRound.winner} |-> TotalBallots]
                /\ LastRound.eliminated = None
                /\ ~HasMajorityFlag(LastRound)
                /\ LastRound.round_number = rounds[i].round_number + 1

\* A total tie of two candidates after an elimination, returned.
TotalTieWitness ==
    /\ pc = "done"
    /\ Len(rounds) = 3
    /\ NoMajority(ActiveAt(2))
    /\ TieSet(ActiveAt(2)) = ActiveAt(2)

(* C13: the vote_counts of a counted round has one entry per candidate
   active in that round, and the count of a candidate is the number of
   ballots whose earliest-ranked active candidate it is. *)
CountsFirstActive ==
    \A i \in DOMAIN rounds :
        Counted(rounds[i]) =>
            /\ DOMAIN rounds[i].vote_counts = ActiveAt(i)
            /\ \A c \in ActiveAt(i) :
                   rounds[i].vote_counts[c] = Tally(c, ActiveAt(i))

\* A second round in which a ballot of the eliminated candidate counts for
\* its next active preference.
CountsFirstActiveWitness ==
    /\ Len(rounds) >= 2
    /\ Counted(rounds[2])
    /\ \E c \in ActiveAt(2) :
           rounds[2].vote_counts[c] > rounds[1].vote_counts[c]
    /\ \E v \in DOMAIN votes :
           /\ Len(votes[v]) >= 2
           /\ votes[v][1] = rounds[1].eliminated
           /\ v \in BallotsFor(votes[v][2], ActiveAt(2))

(* C14: the candidate a round eliminates has the minimum count of the
   round; a single holder of the minimum is the one eliminated; when the
   minimum is shared and some tied candidate has a next-choice credit,
   the eliminated candidate has the fewest credits among the tied. *)
EliminatesLowest ==
    \A i \in DOMAIN rounds :
        rounds[i].eliminated # None =>
            LET active == ActiveAt(i)
                tmin == MinTallySet(active)
                out == rounds[i].eliminated
            IN  /\ out \in tmin
                /\ \A c \in active :
                       rounds[i].vote_counts[out] <= rounds[i].vote_counts[c]
                /\ Cardinality(tmin) = 1 => tmin = {out}
                /\ (Cardinality(tmin) > 1
                        /\ \E c \in tmin : Credits(c, tmin, active) > 0) =>
                       \A c \in tmin : Credits(out, tmin, active)
                                           <= Credits(c, tmin, active)
                /\ out \in TieSet(active)

\* A shared minimum that the next-choice credits narrow to one candidate.
EliminatesLowestWitness ==
    /\ Len(rounds) >= 1
    /\ rounds[1].eliminated # None
    /\ Cardinality(MinTallySet(ActiveAt(1))) > 1
    /\ TieSet(ActiveAt(1)) = {rounds[1].eliminated}

(* C15: when the tabulation ends without a majority win, every candidate
   of the initial active set but the winner is recorded as eliminated in
   exactly one round, and the winner in none. *)
AllOthersEliminated ==
    pc = "done" /\ rounds # <<>>
        /\ (\A i \in DOMAIN rounds : ~HasMajorityFlag(rounds[i])) =>
            /\ \A c \in Referenced \ {LastRound.winner} :
                   Cardinality({i \in DOMAIN rounds :
                                   rounds[i].eliminated = c}) = 1
            /\ \A i \in DOMAIN rounds :
                   rounds[i].eliminated # LastRound.winner

(* C16: from one counted round to the next, the count of a candidate
   active in both does not decrease and the sum of the counts does not
   increase. *)
CountsMonotone ==
    \A i \in 1..(Len(rounds) - 1) :
        Counted(rounds[i]) /\ Counted(rounds[i + 1]) =>
            LET before == rounds[i].vote_counts
                after == rounds[i + 1].vote_counts
            IN  /\ \A c \in DOMAIN before \cap DOMAIN after :
                       before[c] <= after[c]
                /\ SumCounts(after, DOMAIN after)
                       <= SumCounts(before, DOMAIN before)

\* An elimination that exhausts a ballot: the sum of the counts drops.
CountsMonotoneWitness ==
    /\ Len(rounds) >= 2
    /\ Counted(rounds[2])
    /\ rounds[1].vote_counts[rounds[1].eliminated] > 0
    /\ SumCounts(rounds[2].vote_counts, DOMAIN rounds[2].vote_counts)
           < SumCounts(rounds[1].vote_counts, DOMAIN rounds[1].vote_counts)

--------------------------------------------------------------------------
(* C17: with sessions sharing the storage, once every session has run its
   script since the nominations last changed, every session's nomination
   list and the storage's nomination list are the same list. *)
SessionsAgree ==
    stale = {} /\ storage_books # 0 =>
        \A s \in DOMAIN session_books :
            session_books[s] # 0 =>
                heap[session_books[s]] = heap[storage_books]

(* C18: within one session the nominated identities are pairwise distinct,
   no stored ballot lists an identity twice, and every identity in a
   stored ballot is the identity of a nominated book. *)
TabulationPreconditions ==
    session_books[1] # 0 =>
        LET nominated == heap[session_books[1]]
        IN  /\ \A i, j \in DOMAIN nominated :
                   i # j => nominated[i] # nominated[j]
            /\ \A v \in DOMAIN ballots :
                   /\ \A i, j \in DOMAIN ballots[v] :
                          i # j => ballots[v][i] # ballots[v][j]
                   /\ Range(ballots[v]) \subseteq Range(nominated)

\* A ballot cut to one book by two removals, beside a ballot cast after
\* them on the books that remain.
PreconditionsWitness ==
    /\ session_books[1] # 0
    /\ Len(heap[session_books[1]]) = 2
    /\ \E v, w \in DOMAIN ballots :
           Len(ballots[v]) = 1 /\ Len(ballots[w]) = 2

====
